---- MODULE Spec2Model ----
(***************************************************************************)
(* Model of src/main.py: the POST /chat handler and                        *)
(* run_assistant_and_get_reply (lines 46-146), driven against a remote     *)
(* client whose every answer is a nondeterministic choice.                 *)
(*                                                                         *)
(* Two further specifications fix the remote data before the turn starts   *)
(* (the variable remote): TwiceSpec calls the reply resolver a second time *)
(* on the same run, ConcSpec runs two turns on two threads and switches    *)
(* between them where a coroutine is suspended.                            *)
(*                                                                         *)
(* The file registers POST /chat twice.  Routes are matched in the order   *)
(* of registration, so requests reach the first function (lines 167-225,   *)
(* the one with the fallback through responses.create): handler = "first"  *)
(* in every specification of a turn served over HTTP.  The second function *)
(* (lines 227-248) is the one the module-level name chat is bound to; it   *)
(* has no fallback, and DirectSpec (handler = "second") is a turn that     *)
(* calls it directly.                                                      *)
(*                                                                         *)
(* Python values are written as follows.  An optional value (None, or an   *)
(* attribute getattr() does not find) is the empty sequence <<>>, a        *)
(* present value v is <<v>>.  The texts the remote service answers and    *)
(* the literals of the program are TLA+ strings.  The two fields of the    *)
(* request, and the locals stripped from them, are sequences of Unicode    *)
(* code points (ord() of each character): str.strip() decides character by *)
(* character with str.isspace(), which is true for 29 code points from     *)
(* U+0009 to U+3000.                                                       *)
(***************************************************************************)
EXTENDS Integers, Sequences, FiniteSets, TLC

VARIABLES
    req_thread_id,        \* ChatRequest.thread_id as received
    req_message,          \* ChatRequest.message as received
    thread_id,            \* chat: thread_id local (stripped)
    user_msg,             \* chat: user_msg local (stripped)
    pc,                   \* position of the handler coroutine
    run,                  \* run_assistant_and_get_reply: run local
    n_polls,              \* number of runs.retrieve calls made by the loop
    steps_data,           \* steps.data answered by runs.steps.list
    store,                \* remote messages by id, as far as the remote fixed them
    created_message_ids,  \* run_assistant_and_get_reply: created_message_ids
    mid_idx,              \* position of the "for mid in created_message_ids" loop
    msgs_data,            \* msgs.data answered by messages.list
    answer,               \* value returned by run_assistant_and_get_reply
    resp,                 \* chat: resp answered by responses.create
    failed_op,            \* the remote operation that raised, if any
    calls,                \* remote operations invoked so far, in order
    outcome,              \* how the handler ended
    reply,                \* the "response" field of the JSON body
    remote,               \* the remote data by thread when fixed in advance, else None
    other,                \* the locals of the other, suspended turn, if there is one
    first_answer,         \* value returned by an earlier call of the resolver
    handler               \* which of the two chat functions runs the turn

vars == <<req_thread_id, req_message, thread_id, user_msg, pc, run, n_polls,
          steps_data, store, created_message_ids, mid_idx, msgs_data, answer,
          resp, failed_op, calls, outcome, reply, remote, other, first_answer,
          handler>>

(***************************************************************************)
(* Bounds of the model                                                     *)
(***************************************************************************)
MaxPolls == 2
MaxSteps == 2
MaxParts == 2
MaxThread == 2
MaxOut == 2

(***************************************************************************)
(* Python values                                                           *)
(***************************************************************************)
None == <<>>

Some(v) == <<v>>

Truthy(o) == o /= None /\ o[1] /= ""

PyStr(o) == IF o = None THEN "None" ELSE o[1]

SeqsUpTo(S, n) == UNION {[1..k -> S] : k \in 0..n}

\* str.isspace() of the character with code point c: U+0009..U+000D,
\* U+001C..U+0020, U+0085, U+00A0, U+1680, U+2000..U+200A, U+2028, U+2029,
\* U+202F, U+205F, U+3000
IsSpace(c) ==
    \/ 9 <= c /\ c <= 13
    \/ 28 <= c /\ c <= 32
    \/ c = 133 \/ c = 160 \/ c = 5760
    \/ 8192 <= c /\ c <= 8202
    \/ c = 8232 \/ c = 8233 \/ c = 8239 \/ c = 8287 \/ c = 12288

\* str.lstrip() of a sequence of code points
RECURSIVE LStrip(_)
LStrip(s) ==
    IF Len(s) = 0 THEN s
    ELSE IF IsSpace(s[1]) THEN LStrip(SubSeq(s, 2, Len(s)))
    ELSE s

\* str.rstrip() of a sequence of code points
RECURSIVE RStrip(_)
RStrip(s) ==
    IF Len(s) = 0 THEN s
    ELSE IF IsSpace(s[Len(s)]) THEN RStrip(SubSeq(s, 1, Len(s) - 1))
    ELSE s

\* the request field used as received
Strip_Identity(s) == s

Strip(s) == RStrip(LStrip(s))

StartsWith(s, p) == Len(s) >= Len(p) /\ SubSeq(s, 1, Len(p)) = p

(***************************************************************************)
(* Literals of the program                                                 *)
(***************************************************************************)
FailedMarker == "[assistant failed]"

NoAnswerText == "Non ho trovato una risposa dall'assistente."

NoFallbackText == "Non sono riuscito a generare una risposta (fallback)."

PromptText == "Dimmi qualcosa da inviare al bot."

InternalErrorPrefix == "Errore interno: "

TerminalStatuses == {"completed", "failed", "cancelled", "expired", "requires_action"}

(***************************************************************************)
(* Requests                                                                *)
(***************************************************************************)
\* "thd_1" and "thd_2"
Thd1 == <<116, 104, 100, 95, 49>>

Thd2 == <<116, 104, 100, 95, 50>>

\* U+00A0 "h i" U+2003: strips to "h i"
MsgHi == <<160, 104, 32, 105, 8195>>

\* "yo ": strips to "yo"
MsgYo == <<121, 111, 32>>

\* "", " ", "\r\f", U+00A0, U+2003 U+0085, "thd_1"
ThreadIds == {<<>>, <<32>>, <<13, 12>>, <<160>>, <<8195, 133>>, Thd1}

\* "", " \t", "\r\n", U+0085, U+3000 U+2028, MsgHi
Messages == {<<>>, <<32, 9>>, <<13, 10>>, <<133>>, <<12288, 8232>>, MsgHi}

AssistantId == "asst_1"

RunIds == {"run_1"}

MsgIds == {"msg_1", "msg_2"}

ErrTexts == {"", "Connection error."}

NotIterableText == "'NoneType' object is not iterable"

(***************************************************************************)
(* Shapes the remote client answers with                                   *)
(***************************************************************************)
\* a content part: text is absent (an image part) or an object whose value
\* is None or a string
NoTextPart == [text |-> None]

TextPart(v) == [text |-> Some(v)]

Parts == {NoTextPart, TextPart(Some("")), TextPart(Some("hello"))}

Contents == {None} \cup {Some(c) : c \in SeqsUpTo(Parts, MaxParts)}

Msgs ==
    {[role |-> "assistant", content |-> c] : c \in Contents}
    \cup {[role |-> "user", content |-> Some(<<TextPart(Some("hello"))>>)],
          [role |-> "assistant",
           content |-> Some(<<TextPart(Some("")), TextPart(Some("world"))>>)],
          [role |-> "assistant",
           content |-> Some(<<TextPart(Some("world")), TextPart(Some("hello"))>>)],
          [role |-> "assistant",
           content |-> Some(<<TextPart(Some("[assistant failed] retry"))>>)]}

\* the messages of the thread that no step of the run refers to
ThreadOnlyMsgs ==
    {[role |-> "user", content |-> Some(<<TextPart(Some("hello"))>>)],
     [role |-> "assistant", content |-> None],
     [role |-> "assistant", content |-> Some(<<TextPart(Some("")), NoTextPart>>)],
     [role |-> "assistant", content |-> Some(<<TextPart(Some("hello"))>>)],
     [role |-> "assistant", content |-> Some(<<TextPart(Some("")), TextPart(Some("world"))>>)]}

\* a run step: has_details is FALSE when step_details.message_creation
\* cannot be read (the access raises)
Steps ==
    {[type |-> "tool_calls", has_details |-> FALSE, message_id |-> None],
     [type |-> "message_creation", has_details |-> FALSE, message_id |-> None],
     [type |-> "message_creation", has_details |-> TRUE, message_id |-> None]}
    \cup {[type |-> "message_creation", has_details |-> TRUE, message_id |-> Some(m)] :
            m \in MsgIds}

LastErrors ==
    {None,
     Some([code |-> Some("x"), message |-> Some("y")]),
     Some([code |-> None, message |-> None])}

\* status is None when the run object carries no status attribute
RunStatuses == {None, Some("queued"), Some("in_progress")} \cup {Some(s) : s \in TerminalStatuses}

LastErrorsFor(st) ==
    IF st \in {Some(s) : s \in TerminalStatuses \ {"completed"}} THEN LastErrors ELSE {None}

FbContents ==
    {<<NoTextPart, TextPart(None), TextPart(Some(""))>>,
     <<TextPart(Some("item-text"))>>,
     <<TextPart(Some("")), TextPart(Some("other-text"))>>}

\* an output item: content_kind is "absent" (no attribute), "null" or "list"
FbItems ==
    {[type |-> "reasoning", content_kind |-> "list", content |-> <<TextPart(Some("item-text"))>>],
     [type |-> "message", content_kind |-> "absent", content |-> <<>>],
     [type |-> "message", content_kind |-> "null", content |-> <<>>]}
    \cup {[type |-> "message", content_kind |-> "list", content |-> c] :
            c \in FbContents}

FbOutputs == {None} \cup {Some(o) : o \in SeqsUpTo(FbItems, MaxOut)}

\* has_output_text is FALSE when reading resp.output_text raises
FbResps ==
    {[has_output_text |-> FALSE, output_text |-> None, output |-> o] : o \in FbOutputs}
    \cup {[has_output_text |-> TRUE, output_text |-> t, output |-> o] :
            t \in {None, Some(""), Some("backup-answer")},
            o \in {None,
                   Some(<<[type |-> "message", content_kind |-> "list",
                           content |-> <<TextPart(Some("item-text"))>>]>>)}}

(***************************************************************************)
(* Local computations of the program                                       *)
(***************************************************************************)
\* lines 118-122 and 135-139: the first part whose text and text.value are
\* both truthy gives the answer
RECURSIVE FirstPartText(_)
FirstPartText(parts) ==
    IF parts = <<>> THEN None
    ELSE IF Head(parts).text /= None /\ Truthy(Head(parts).text[1])
         THEN Head(parts).text[1]
         ELSE FirstPartText(Tail(parts))

\* the role of the message is not looked at
MessageText_NoRoleCheck(m) ==
    IF m.content /= None /\ m.content[1] /= <<>>
    THEN FirstPartText(m.content[1])
    ELSE None

\* lines 117-122 and 134-139: what one message contributes to answer
MessageText(m) ==
    IF m.role = "assistant" /\ m.content /= None /\ m.content[1] /= <<>>
    THEN FirstPartText(m.content[1])
    ELSE None

\* the listing is scanned from its last (oldest) message
ScanMessages_OldestFirst(ms) ==
    LET hits == {i \in DOMAIN ms : Truthy(MessageText(ms[i]))}
    IN  IF hits = {} THEN None
        ELSE MessageText(ms[CHOOSE i \in hits : \A j \in hits : j <= i])

\* lines 133-141: the scan of msgs.data, stopping at the first answer
RECURSIVE ScanMessages(_)
ScanMessages(ms) ==
    IF ms = <<>> THEN None
    ELSE IF Truthy(MessageText(Head(ms))) THEN MessageText(Head(ms))
         ELSE ScanMessages(Tail(ms))

\* lines 99-107: the message ids of the message_creation steps
RECURSIVE CollectMessageIds(_)
CollectMessageIds(ss) ==
    IF ss = <<>> THEN <<>>
    ELSE IF /\ Head(ss).type = "message_creation"
            /\ Head(ss).has_details
            /\ Truthy(Head(ss).message_id)
         THEN <<Head(ss).message_id[1]>> \o CollectMessageIds(Tail(ss))
         ELSE CollectMessageIds(Tail(ss))

\* the description does not start with the marker chat looks for
FailedReply_NoMarker(r) ==
    IF r.last_error /= None
    THEN "assistant failed: code=" \o PyStr(r.last_error[1].code)
                      \o " message=" \o PyStr(r.last_error[1].message)
    ELSE "assistant failed: status=" \o r.status[1]

\* lines 81-90: the text returned for a run that did not complete
FailedReply(r) ==
    IF r.last_error /= None
    THEN FailedMarker \o " code=" \o PyStr(r.last_error[1].code)
                      \o " message=" \o PyStr(r.last_error[1].message)
    ELSE FailedMarker \o " status=" \o r.status[1]

\* lines 206-214: the manual scan of resp.output; err is TRUE when the scan
\* raises on a message item whose content is None
RECURSIVE ScanOutput(_)
ScanOutput(items) ==
    IF items = <<>> THEN [err |-> FALSE, text |-> None]
    ELSE IF Head(items).type /= "message" THEN ScanOutput(Tail(items))
    ELSE IF Head(items).content_kind = "null" THEN [err |-> TRUE, text |-> None]
    ELSE IF Truthy(FirstPartText(Head(items).content))
         THEN [err |-> FALSE, text |-> FirstPartText(Head(items).content)]
         ELSE ScanOutput(Tail(items))

\* lines 199-216: the text taken from the response of responses.create
FallbackText(r) ==
    IF r.has_output_text THEN [err |-> FALSE, text |-> r.output_text]
    ELSE LET scan == IF r.output /= None /\ r.output[1] /= <<>>
                     THEN ScanOutput(r.output[1])
                     ELSE [err |-> FALSE, text |-> None]
         IN  IF scan.err THEN scan
             ELSE IF Truthy(scan.text) THEN scan
             ELSE [err |-> FALSE, text |-> Some(NoFallbackText)]

(***************************************************************************)
(* What the remote service may answer to a call.  With remote = None every *)
(* answer is a free choice and any call may raise; with the data fixed in  *)
(* advance the answer is the one recorded for the thread the call names    *)
(* and every call answers.                                                 *)
(***************************************************************************)
RemoteThread == remote[1][thread_id]

Raises == IF remote = None THEN ErrTexts ELSE {}

RunIdAnswers == IF remote = None THEN RunIds ELSE {RemoteThread.run_id}

PollAnswers ==
    IF remote = None
    THEN {a \in [status : RunStatuses, last_error : LastErrors] :
            a.last_error \in LastErrorsFor(a.status)}
    ELSE IF n_polls < Len(RemoteThread.polls)
         THEN {RemoteThread.polls[n_polls + 1]}
         ELSE {}

StepsAnswers == IF remote = None THEN SeqsUpTo(Steps, MaxSteps) ELSE {RemoteThread.steps}

StoreAnswers(refs) ==
    IF remote = None THEN [refs -> Msgs] ELSE {[m \in refs |-> RemoteThread.msgs[m]]}

ListingAnswers ==
    IF remote = None THEN SeqsUpTo(MsgIds, MaxThread) ELSE {RemoteThread.listing}

ExtAnswers(new) ==
    IF remote = None THEN [new -> ThreadOnlyMsgs] ELSE {[m \in new |-> RemoteThread.msgs[m]]}

FbAnswers == IF remote = None THEN FbResps ELSE {RemoteThread.fb}

\* a message of the thread has been emptied by the call that read it
ThreadAfterRetrieve_Consumes(w, mid) == [w EXCEPT !.msgs[mid].content = None]

\* lines 113-116: messages.retrieve reads the message; the thread is as it was
ThreadAfterRetrieve(w, mid) == w

\* the locals of a turn that has not started
FreshTurn ==
    /\ thread_id = <<>>
    /\ user_msg = <<>>
    /\ pc = "request"
    /\ run = None
    /\ n_polls = 0
    /\ steps_data = <<>>
    /\ store = <<>>
    /\ created_message_ids = <<>>
    /\ mid_idx = 0
    /\ msgs_data = <<>>
    /\ answer = None
    /\ resp = None
    /\ failed_op = None
    /\ calls = <<>>
    /\ outcome = "pending"
    /\ reply = None

Init ==
    /\ req_thread_id \in ThreadIds
    /\ req_message \in Messages
    /\ FreshTurn
    /\ remote = None
    /\ other = None
    /\ first_answer = None
    /\ handler = "first"

\* the message is tested before the thread_id
ChatValidate_MessageFirst ==
    /\ pc = "request"
    /\ thread_id' = Strip(req_thread_id)
    /\ user_msg' = Strip(req_message)
    /\ IF Len(Strip(req_message)) = 0
       THEN /\ outcome' = "ok"
            /\ reply' = Some(PromptText)
            /\ pc' = "done"
       ELSE IF Len(Strip(req_thread_id)) = 0
       THEN /\ outcome' = "http_400"
            /\ reply' = None
            /\ pc' = "done"
       ELSE /\ outcome' = outcome
            /\ reply' = reply
            /\ pc' = "append"
    /\ UNCHANGED <<remote, other, first_answer, handler>>
    /\ UNCHANGED <<req_thread_id, req_message, run, n_polls, steps_data, store,
                   created_message_ids, mid_idx, msgs_data, answer, resp,
                   failed_op, calls>>

(***************************************************************************)
(* chat, lines 175-181: validation of the request                          *)
(***************************************************************************)
ChatValidate ==
    /\ pc = "request"
    /\ thread_id' = Strip(req_thread_id)
    /\ user_msg' = Strip(req_message)
    /\ IF Len(Strip(req_thread_id)) = 0
       THEN /\ outcome' = "http_400"
            /\ reply' = None
            /\ pc' = "done"
       ELSE IF Len(Strip(req_message)) = 0
       THEN /\ outcome' = "ok"
            /\ reply' = Some(PromptText)
            /\ pc' = "done"
       ELSE /\ outcome' = outcome
            /\ reply' = reply
            /\ pc' = "append"
    /\ UNCHANGED <<remote, other, first_answer, handler>>
    /\ UNCHANGED <<req_thread_id, req_message, run, n_polls, steps_data, store,
                   created_message_ids, mid_idx, msgs_data, answer, resp,
                   failed_op, calls>>

\* one remote call: the operation, the thread it names, its main argument
\* and the listing options it passes
Call(op, arg, opts) == [op |-> op, thread_id |-> thread_id, arg |-> arg, opts |-> opts]

\* the exception leaves the handler
ChatExcept_Propagate(op, e) ==
    /\ failed_op' = Some(op)
    /\ outcome' = "http_500"
    /\ reply' = None
    /\ pc' = "done"

\* chat, lines 223-225: the handler of any exception raised inside the try
ChatExcept(op, e) ==
    /\ failed_op' = Some(op)
    /\ outcome' = "ok"
    /\ reply' = Some(InternalErrorPrefix \o e)
    /\ pc' = "done"

\* a reply that reports a failed run makes the turn start another run
ChatGotAnswer_Restart(a) ==
    /\ answer' = Some(a)
    /\ failed_op' = failed_op
    /\ IF StartsWith(a, FailedMarker)
       THEN /\ pc' = "start_run"
            /\ outcome' = outcome
            /\ reply' = reply
       ELSE /\ pc' = "done"
            /\ outcome' = "ok"
            /\ reply' = Some(a)

\* chat, lines 184-187 and 220-221: run_assistant_and_get_reply returned a;
\* the second function (lines 241-242) returns a whatever it says
ChatGotAnswer(a) ==
    /\ answer' = Some(a)
    /\ failed_op' = failed_op
    /\ IF handler = "first" /\ StartsWith(a, FailedMarker)
       THEN /\ pc' = "complete"
            /\ outcome' = outcome
            /\ reply' = reply
       ELSE /\ pc' = "done"
            /\ outcome' = "ok"
            /\ reply' = Some(a)

\* lines 56-60: client.beta.threads.messages.create
AppendMessage ==
    /\ pc = "append"
    /\ calls' = Append(calls, Call("append_message", user_msg, "role=user"))
    /\ \/ \E e \in Raises :
            /\ ChatExcept("append_message", e)
            /\ UNCHANGED answer
       \/ /\ pc' = "start_run"
          /\ UNCHANGED <<failed_op, outcome, reply, answer>>
    /\ UNCHANGED <<remote, other, first_answer, handler>>
    /\ UNCHANGED <<req_thread_id, req_message, thread_id, user_msg, run, n_polls,
                   steps_data, store, created_message_ids, mid_idx, msgs_data, resp>>

\* lines 63-66: client.beta.threads.runs.create
StartRun ==
    /\ pc = "start_run"
    /\ calls' = Append(calls, Call("start_run", AssistantId, ""))
    /\ \/ \E e \in Raises :
            /\ ChatExcept("start_run", e)
            /\ UNCHANGED <<answer, run>>
       \/ \E rid \in RunIdAnswers :
            /\ run' = Some([id |-> rid, status |-> Some("queued"), last_error |-> None])
            /\ pc' = "get_run"
            /\ UNCHANGED <<failed_op, outcome, reply, answer>>
    /\ UNCHANGED <<remote, other, first_answer, handler>>
    /\ UNCHANGED <<req_thread_id, req_message, thread_id, user_msg, n_polls,
                   steps_data, store, created_message_ids, mid_idx, msgs_data, resp>>

\* the loop ends on any status the run carries
LoopBreaks_OnAnyStatus(st) == st /= None

\* lines 74-77: the status read from the run and the test that ends the loop
LoopBreaks(st) == PyStr(IF st = None THEN Some("unknown") ELSE st) \in TerminalStatuses

\* only a failed run is reported as not completed
StatusNotCompleted_FailedOnly(st) == st[1] = "failed"

\* line 81: run.status != "completed"
StatusNotCompleted(st) == st[1] /= "completed"

\* lines 69-90: one turn of the polling loop, and what follows a terminal status
GetRun ==
    /\ pc = "get_run"
    /\ calls' = Append(calls, Call("get_run", run[1].id, ""))
    /\ n_polls' = n_polls + 1
    /\ \/ \E e \in Raises :
            /\ ChatExcept("get_run", e)
            /\ UNCHANGED <<answer, run>>
       \/ \E a \in PollAnswers :
            /\ a.status \in {Some(s) : s \in TerminalStatuses} \/ n_polls < MaxPolls
            /\ run' = Some([id |-> run[1].id, status |-> a.status,
                            last_error |-> a.last_error])
            /\ IF LoopBreaks(a.status)
               THEN IF StatusNotCompleted(a.status)
                    THEN ChatGotAnswer(FailedReply(run'[1]))
                    ELSE /\ pc' = "list_run_steps"
                         /\ UNCHANGED <<failed_op, outcome, reply, answer>>
               ELSE /\ pc' = "sleep"
                    /\ UNCHANGED <<failed_op, outcome, reply, answer>>
    /\ UNCHANGED <<remote, other, first_answer, handler>>
    /\ UNCHANGED <<req_thread_id, req_message, thread_id, user_msg,
                   steps_data, store, created_message_ids, mid_idx, msgs_data, resp>>

\* the sleeping coroutine is never resumed
Sleep_NeverResumes ==
    /\ pc = "sleep"
    /\ pc' = "suspended"
    /\ UNCHANGED <<remote, other, first_answer, handler>>
    /\ UNCHANGED <<req_thread_id, req_message, thread_id, user_msg, run, n_polls,
                   steps_data, store, created_message_ids, mid_idx, msgs_data,
                   answer, resp, failed_op, calls, outcome, reply>>

\* line 78: await asyncio.sleep(0.6)
Sleep ==
    /\ pc = "sleep"
    /\ pc' = "get_run"
    /\ UNCHANGED <<remote, other, first_answer, handler>>
    /\ UNCHANGED <<req_thread_id, req_message, thread_id, user_msg, run, n_polls,
                   steps_data, store, created_message_ids, mid_idx, msgs_data,
                   answer, resp, failed_op, calls, outcome, reply>>

\* no text is substituted for a missing answer
ReturnAnswer_NoSentinel(a) ==
    ChatGotAnswer(IF Truthy(a) THEN a[1] ELSE "")

\* lines 143-146: the end of run_assistant_and_get_reply
ReturnAnswer(a) ==
    ChatGotAnswer(IF Truthy(a) THEN a[1] ELSE NoAnswerText)

\* lines 93-111: client.beta.threads.runs.steps.list and the collection of ids
ListRunSteps ==
    /\ pc = "list_run_steps"
    /\ calls' = Append(calls, Call("list_run_steps", run[1].id, "order=asc,limit=50"))
    /\ \/ \E e \in Raises :
            /\ ChatExcept("list_run_steps", e)
            /\ UNCHANGED <<answer, steps_data, store, created_message_ids, mid_idx>>
       \/ \E ss \in StepsAnswers :
          \E st \in StoreAnswers({x \in MsgIds : \E i \in DOMAIN ss : ss[i].message_id = Some(x)}) :
            /\ steps_data' = ss
            /\ store' = st
            /\ created_message_ids' = CollectMessageIds(ss)
            /\ IF CollectMessageIds(ss) /= <<>>
               THEN /\ mid_idx' = 1
                    /\ pc' = "get_message"
               ELSE /\ mid_idx' = mid_idx
                    /\ pc' = "list_messages"
            /\ UNCHANGED <<failed_op, outcome, reply, answer>>
    /\ UNCHANGED <<remote, other, first_answer, handler>>
    /\ UNCHANGED <<req_thread_id, req_message, thread_id, user_msg, run, n_polls,
                   msgs_data, resp>>

\* the loop over the ids goes on after a message that has text
GetMessage_NoBreak ==
    /\ pc = "get_message"
    /\ calls' = Append(calls, Call("get_message", created_message_ids[mid_idx], ""))
    /\ \/ \E e \in Raises :
            /\ ChatExcept("get_message", e)
            /\ UNCHANGED <<answer, mid_idx>>
       \/ LET a == MessageText(store[created_message_ids[mid_idx]])
          IN  IF Truthy(a) /\ mid_idx = Len(created_message_ids)
              THEN /\ ReturnAnswer(a)
                   /\ UNCHANGED mid_idx
              ELSE /\ mid_idx' = mid_idx + 1
                   /\ pc' = IF mid_idx < Len(created_message_ids)
                            THEN "get_message" ELSE "list_messages"
                   /\ UNCHANGED <<failed_op, outcome, reply, answer>>
    /\ remote' = IF remote = None THEN None
                  ELSE Some([remote[1] EXCEPT ![thread_id] =
                              ThreadAfterRetrieve(@, created_message_ids[mid_idx])])
    /\ UNCHANGED <<other, first_answer, handler>>
    /\ UNCHANGED <<req_thread_id, req_message, thread_id, user_msg, run, n_polls,
                   steps_data, store, created_message_ids, msgs_data, resp>>

\* lines 112-124: one turn of "for mid in created_message_ids"
GetMessage ==
    /\ pc = "get_message"
    /\ calls' = Append(calls, Call("get_message", created_message_ids[mid_idx], ""))
    /\ \/ \E e \in Raises :
            /\ ChatExcept("get_message", e)
            /\ UNCHANGED <<answer, mid_idx>>
       \/ LET a == MessageText(store[created_message_ids[mid_idx]])
          IN  IF Truthy(a)
              THEN /\ ReturnAnswer(a)
                   /\ UNCHANGED mid_idx
              ELSE /\ mid_idx' = mid_idx + 1
                   /\ pc' = IF mid_idx < Len(created_message_ids)
                            THEN "get_message" ELSE "list_messages"
                   /\ UNCHANGED <<failed_op, outcome, reply, answer>>
    /\ remote' = IF remote = None THEN None
                  ELSE Some([remote[1] EXCEPT ![thread_id] =
                              ThreadAfterRetrieve(@, created_message_ids[mid_idx])])
    /\ UNCHANGED <<other, first_answer, handler>>
    /\ UNCHANGED <<req_thread_id, req_message, thread_id, user_msg, run, n_polls,
                   steps_data, store, created_message_ids, msgs_data, resp>>

\* lines 127-146: client.beta.threads.messages.list and the scan of its data
ListMessages ==
    /\ pc = "list_messages"
    /\ calls' = Append(calls, Call("list_messages", "", "order=desc,limit=25"))
    /\ \/ \E e \in Raises :
            /\ ChatExcept("list_messages", e)
            /\ UNCHANGED <<answer, store, msgs_data>>
       \/ \E ids \in ListingAnswers :
          \E ext \in ExtAnswers({ids[i] : i \in DOMAIN ids} \ DOMAIN store) :
            /\ store' = store @@ ext
            /\ msgs_data' = [i \in DOMAIN ids |-> store'[ids[i]]]
            /\ ReturnAnswer(ScanMessages(msgs_data'))
    /\ UNCHANGED <<remote, other, first_answer, handler>>
    /\ UNCHANGED <<req_thread_id, req_message, thread_id, user_msg, run, n_polls,
                   steps_data, created_message_ids, mid_idx, resp>>

\* a failed completion call is attempted a second time
Complete_Retry ==
    /\ pc = "complete"
    /\ calls' = Append(calls, Call("complete", user_msg, "model=gpt-4o-mini"))
    /\ \/ \E e \in Raises :
            /\ IF \E i \in DOMAIN calls : calls[i].op = "complete"
               THEN ChatExcept("complete", e)
               ELSE UNCHANGED <<pc, failed_op, outcome, reply>>
            /\ UNCHANGED resp
       \/ \E r \in FbAnswers :
            /\ resp' = Some(r)
            /\ IF FallbackText(r).err
               THEN ChatExcept("parse_output", NotIterableText)
               ELSE /\ outcome' = "ok"
                    /\ reply' = FallbackText(r).text
                    /\ pc' = "done"
                    /\ failed_op' = failed_op
    /\ UNCHANGED <<remote, other, first_answer, handler>>
    /\ UNCHANGED <<req_thread_id, req_message, thread_id, user_msg, run, n_polls,
                   steps_data, store, created_message_ids, mid_idx, msgs_data, answer>>

\* lines 187-218: client.responses.create and the extraction of its text
Complete ==
    /\ pc = "complete"
    /\ calls' = Append(calls, Call("complete", user_msg, "model=gpt-4o-mini"))
    /\ \/ \E e \in Raises :
            /\ ChatExcept("complete", e)
            /\ UNCHANGED resp
       \/ \E r \in FbAnswers :
            /\ resp' = Some(r)
            /\ IF FallbackText(r).err
               THEN ChatExcept("parse_output", NotIterableText)
               ELSE /\ outcome' = "ok"
                    /\ reply' = FallbackText(r).text
                    /\ pc' = "done"
                    /\ failed_op' = failed_op
    /\ UNCHANGED <<remote, other, first_answer, handler>>
    /\ UNCHANGED <<req_thread_id, req_message, thread_id, user_msg, run, n_polls,
                   steps_data, store, created_message_ids, mid_idx, msgs_data, answer>>

Next ==
    \/ ChatValidate
    \/ AppendMessage
    \/ StartRun
    \/ GetRun
    \/ Sleep
    \/ ListRunSteps
    \/ GetMessage
    \/ ListMessages
    \/ Complete

Spec == Init /\ [][Next]_vars

\* lines 227-248: the function the name chat is bound to, called directly
DirectInit ==
    /\ req_thread_id \in ThreadIds
    /\ req_message \in Messages
    /\ FreshTurn
    /\ remote = None
    /\ other = None
    /\ first_answer = None
    /\ handler = "second"

DirectSpec == DirectInit /\ [][Next]_vars

\* The handler is a coroutine of the event loop: a step it can take (a remote
\* call that answers, the end of the 0.6 s sleep) is eventually taken.  GetRun
\* offers a non-terminal status at most MaxPolls times, so the run eventually
\* reports a terminal status.
(***************************************************************************)
(* The resolver called twice on the same run: lines 92-146 are run again   *)
(* after the turn has ended, against remote data fixed before the turn.    *)
(***************************************************************************)
TwiceMsgs ==
    {[role |-> "user", content |-> Some(<<TextPart(Some("hello"))>>)],
     [role |-> "assistant", content |-> Some(<<TextPart(Some("hello"))>>)],
     [role |-> "assistant", content |-> Some(<<TextPart(Some("")), TextPart(Some("world"))>>)],
     [role |-> "assistant", content |-> Some(<<TextPart(Some("[assistant failed] retry"))>>)]}

TwiceWorlds ==
    {[run_id |-> "run_1",
      polls |-> <<[status |-> Some("in_progress"), last_error |-> None],
                  [status |-> Some("completed"), last_error |-> None]>>,
      steps |-> ss,
      msgs |-> ms,
      listing |-> l,
      fb |-> [has_output_text |-> TRUE, output_text |-> Some("backup-answer"),
              output |-> None]] :
        ss \in SeqsUpTo(Steps, MaxSteps),
        ms \in [MsgIds -> TwiceMsgs],
        l \in SeqsUpTo(MsgIds, MaxThread)}

TwiceInit ==
    /\ req_thread_id = Thd1
    /\ req_message = MsgHi
    /\ FreshTurn
    /\ remote \in {Some([t \in {Thd1} |-> w]) : w \in TwiceWorlds}
    /\ other = None
    /\ first_answer = None
    /\ handler = "first"

\* lines 92-111 entered a second time for the run of the turn: steps.list is
\* about to be called, created_message_ids and answer start empty
ResolveAgain ==
    /\ pc = "done"
    /\ first_answer = None
    /\ answer /= None
    /\ run /= None
    /\ run[1].status = Some("completed")
    /\ first_answer' = answer
    /\ pc' = "list_run_steps"
    /\ steps_data' = <<>>
    /\ store' = <<>>
    /\ created_message_ids' = <<>>
    /\ mid_idx' = 0
    /\ msgs_data' = <<>>
    /\ answer' = None
    /\ resp' = None
    /\ outcome' = "pending"
    /\ reply' = None
    /\ UNCHANGED <<req_thread_id, req_message, thread_id, user_msg, run, n_polls,
                   failed_op, calls, remote, other, handler>>

TwiceNext ==
    \/ Next
    \/ ResolveAgain

TwiceSpec == TwiceInit /\ [][TwiceNext]_vars

(***************************************************************************)
(* Two turns on two threads.  Each call of the chat coroutine has its own  *)
(* locals; the turn that is running has them in the variables of the       *)
(* module, the suspended one in other.  The client calls are synchronous,  *)
(* so the event loop changes turn only where a coroutine has not started,  *)
(* awaits the sleep of line 78, or has returned.                           *)
(***************************************************************************)
ConcData ==
    {[steps |-> <<[type |-> "message_creation", has_details |-> TRUE,
                   message_id |-> Some("msg_1")]>>,
      msgs |-> [m \in MsgIds |->
                  IF m = "msg_1"
                  THEN [role |-> "assistant", content |-> Some(<<TextPart(Some("hello"))>>)]
                  ELSE [role |-> "user", content |-> Some(<<TextPart(Some("hello"))>>)]],
      listing |-> <<"msg_1">>],
     [steps |-> <<>>,
      msgs |-> [m \in MsgIds |->
                  IF m = "msg_1"
                  THEN [role |-> "user", content |-> Some(<<TextPart(Some("hello"))>>)]
                  ELSE [role |-> "assistant",
                        content |-> Some(<<TextPart(Some("")), TextPart(Some("world"))>>)]],
      listing |-> <<"msg_2", "msg_1">>],
     [steps |-> <<[type |-> "message_creation", has_details |-> TRUE,
                   message_id |-> Some("msg_1")]>>,
      msgs |-> [m \in MsgIds |->
                  [role |-> "assistant",
                   content |-> Some(<<TextPart(Some("[assistant failed] retry"))>>)]],
      listing |-> <<>>]}

ConcFbs ==
    {[has_output_text |-> TRUE, output_text |-> Some("backup-answer"), output |-> None],
     [has_output_text |-> FALSE, output_text |-> None,
      output |-> Some(<<[type |-> "message", content_kind |-> "list",
                         content |-> <<TextPart(Some("item-text"))>>]>>)]}

\* k non-terminal statuses, then a terminal one
ConcPolls ==
    {[i \in 1..(k + 1) |->
        IF i <= k THEN [status |-> Some("in_progress"), last_error |-> None] ELSE t] :
        k \in 0..MaxPolls,
        t \in {[status |-> Some("completed"), last_error |-> None],
               [status |-> Some("failed"),
                last_error |-> Some([code |-> Some("x"), message |-> Some("y")])]}}

ConcWorlds(rid) ==
    {[run_id |-> rid, polls |-> p, steps |-> d.steps, msgs |-> d.msgs,
      listing |-> d.listing, fb |-> f] :
        p \in ConcPolls, d \in ConcData, f \in ConcFbs}

\* the locals of the running turn
Locals ==
    [req_thread_id |-> req_thread_id, req_message |-> req_message,
     thread_id |-> thread_id, user_msg |-> user_msg, pc |-> pc, run |-> run,
     n_polls |-> n_polls, steps_data |-> steps_data, store |-> store,
     created_message_ids |-> created_message_ids, mid_idx |-> mid_idx,
     msgs_data |-> msgs_data, answer |-> answer, resp |-> resp,
     failed_op |-> failed_op, calls |-> calls, outcome |-> outcome, reply |-> reply]

\* the locals of a turn that has not started, for the request (t, m)
FreshFrame(t, m) ==
    [req_thread_id |-> t, req_message |-> m,
     thread_id |-> <<>>, user_msg |-> <<>>, pc |-> "request", run |-> None,
     n_polls |-> 0, steps_data |-> <<>>, store |-> <<>>,
     created_message_ids |-> <<>>, mid_idx |-> 0,
     msgs_data |-> <<>>, answer |-> None, resp |-> None,
     failed_op |-> None, calls |-> <<>>, outcome |-> "pending", reply |-> None]

ConcInit ==
    /\ req_thread_id = Thd1
    /\ req_message = MsgHi
    /\ FreshTurn
    /\ other \in {Some(FreshFrame(Thd2, m)) : m \in {<<>>, MsgYo}}
    /\ remote \in {Some((Thd1 :> w1) @@ (Thd2 :> w2)) :
                      w1 \in ConcWorlds("run_1"), w2 \in ConcWorlds("run_2")}
    /\ first_answer = None
    /\ handler = "first"

\* run is a name of the module, one for all turns
LoadFrame_SharedRun(f) ==
    /\ req_thread_id' = f.req_thread_id
    /\ req_message' = f.req_message
    /\ thread_id' = f.thread_id
    /\ user_msg' = f.user_msg
    /\ pc' = f.pc
    /\ run' = run
    /\ n_polls' = f.n_polls
    /\ steps_data' = f.steps_data
    /\ store' = f.store
    /\ created_message_ids' = f.created_message_ids
    /\ mid_idx' = f.mid_idx
    /\ msgs_data' = f.msgs_data
    /\ answer' = f.answer
    /\ resp' = f.resp
    /\ failed_op' = f.failed_op
    /\ calls' = f.calls
    /\ outcome' = f.outcome
    /\ reply' = f.reply

\* lines 46-146 and 167-225: every name the two functions assign is a local
\* of the call, so the turn that resumes finds all of them as it left them
LoadFrame(f) ==
    /\ req_thread_id' = f.req_thread_id
    /\ req_message' = f.req_message
    /\ thread_id' = f.thread_id
    /\ user_msg' = f.user_msg
    /\ pc' = f.pc
    /\ run' = f.run
    /\ n_polls' = f.n_polls
    /\ steps_data' = f.steps_data
    /\ store' = f.store
    /\ created_message_ids' = f.created_message_ids
    /\ mid_idx' = f.mid_idx
    /\ msgs_data' = f.msgs_data
    /\ answer' = f.answer
    /\ resp' = f.resp
    /\ failed_op' = f.failed_op
    /\ calls' = f.calls
    /\ outcome' = f.outcome
    /\ reply' = f.reply

\* the event loop runs the other turn
Switch ==
    /\ pc \in {"request", "sleep", "done"}
    /\ other /= None
    /\ other[1].pc /= "done"
    /\ other' = Some(Locals)
    /\ LoadFrame(other[1])
    /\ UNCHANGED <<remote, first_answer, handler>>

ConcNext ==
    \/ Next
    \/ Switch

ConcSpec == ConcInit /\ [][ConcNext]_vars

\* what run_assistant_and_get_reply returns for the remote data w of a thread
SoloAnswer(w) ==
    LET last == w.polls[Len(w.polls)]
        ids == CollectMessageIds(w.steps)
        hits == {i \in DOMAIN ids : Truthy(MessageText(w.msgs[ids[i]]))}
        a == IF hits /= {}
             THEN MessageText(w.msgs[ids[CHOOSE i \in hits : \A j \in hits : i <= j]])
             ELSE ScanMessages([i \in DOMAIN w.listing |-> w.msgs[w.listing[i]]])
    IN  IF StatusNotCompleted(last.status) THEN FailedReply(last)
        ELSE IF Truthy(a) THEN a[1] ELSE NoAnswerText

\* the "response" of a turn that runs alone on a thread with remote data w
SoloReply(w) ==
    IF StartsWith(SoloAnswer(w), FailedMarker)
    THEN IF FallbackText(w.fb).err
         THEN Some(InternalErrorPrefix \o NotIterableText)
         ELSE FallbackText(w.fb).text
    ELSE Some(SoloAnswer(w))

\* The answers of the remote service that FairSpec draws from: one
\* message of each kind that decides the control flow (not an assistant
\* message, an assistant message with text, a text starting with the failure
\* marker), one shape of last_error, one exception text, a completion
\* response without output items.  Every loop keeps its full length.
LiveWorld ==
    /\ \A m \in DOMAIN store :
          store[m] \in {[role |-> "user", content |-> Some(<<TextPart(Some("hello"))>>)],
                        [role |-> "assistant", content |-> Some(<<TextPart(Some("hello"))>>)],
                        [role |-> "assistant",
                         content |-> Some(<<TextPart(Some("[assistant failed] retry"))>>)]}
    /\ resp /= None => resp[1].output = None
    /\ run /= None => run[1].last_error \in {None, Some([code |-> Some("x"), message |-> Some("y")])}
    /\ reply /= Some(InternalErrorPrefix)

\* the steps of Next whose remote answers lie in LiveWorld
LiveNext ==
    \/ ChatValidate /\ LiveWorld'
    \/ AppendMessage /\ LiveWorld'
    \/ StartRun /\ LiveWorld'
    \/ GetRun /\ LiveWorld'
    \/ Sleep /\ LiveWorld'
    \/ ListRunSteps /\ LiveWorld'
    \/ GetMessage /\ LiveWorld'
    \/ ListMessages /\ LiveWorld'
    \/ Complete /\ LiveWorld'

FairSpec == Init /\ [][LiveNext]_vars /\ WF_vars(LiveNext)

(***************************************************************************)
(* Vocabulary of the properties, stated on the data the remote answered    *)
(* with and not on the program's own computations                          *)
(***************************************************************************)
IsBlank(s) == \A i \in 1..Len(s) : IsSpace(s[i])

IsTrimOf(t, s) ==
    \E i \in 1..Len(s) : \E j \in i..Len(s) :
        /\ t = SubSeq(s, i, j)
        /\ IsBlank(SubSeq(s, 1, i - 1))
        /\ IsBlank(SubSeq(s, j + 1, Len(s)))
        /\ ~IsSpace(s[i])
        /\ ~IsSpace(s[j])

HasText(p) == p.text /= None /\ p.text[1] /= None /\ p.text[1][1] /= ""

Qualifies(m) ==
    /\ m.role = "assistant"
    /\ m.content /= None
    /\ \E i \in DOMAIN m.content[1] : HasText(m.content[1][i])

FirstTextOf(m) ==
    LET c == m.content[1]
        i == CHOOSE k \in DOMAIN c : HasText(c[k]) /\ \A j \in 1..(k - 1) : ~HasText(c[j])
    IN  c[i].text[1][1]

MinOf(S) == CHOOSE x \in S : \A y \in S : x <= y

CreatesMessage(st) ==
    /\ st.type = "message_creation"
    /\ st.has_details
    /\ st.message_id /= None
    /\ st.message_id[1] /= ""

\* positions of the steps whose message is an assistant message with text
PrimaryIdx ==
    {i \in DOMAIN steps_data :
        /\ CreatesMessage(steps_data[i])
        /\ Qualifies(store[steps_data[i].message_id[1]])}

\* positions in the thread listing of the assistant messages with text
ThreadIdx == {i \in DOMAIN msgs_data : Qualifies(msgs_data[i])}

NoPartHasText(m) ==
    m.content = None \/ \A i \in DOMAIN m.content[1] : ~HasText(m.content[1][i])

NoTextAnywhere ==
    /\ \A i \in DOMAIN steps_data :
         CreatesMessage(steps_data[i]) => NoPartHasText(store[steps_data[i].message_id[1]])
    /\ \A i \in DOMAIN msgs_data : NoPartHasText(msgs_data[i])

RunCompleted == run /= None /\ run[1].status = Some("completed")

RunNotCompleted ==
    run /= None /\ run[1].status \in {Some(x) : x \in TerminalStatuses \ {"completed"}}

Called(op) == \E i \in DOMAIN calls : calls[i].op = op

ResolverOps == {"list_run_steps", "get_message", "list_messages"}

RunOps == {"append_message", "start_run", "get_run"} \cup ResolverOps

\* the fallback response offers no text at all
FallbackOffersNoText(r) ==
    /\ ~(r.has_output_text /\ Truthy(r.output_text))
    /\ \/ r.output = None
       \/ \A i \in DOMAIN r.output[1] :
            \/ r.output[1][i].type /= "message"
            \/ \A k \in DOMAIN r.output[1][i].content : ~HasText(r.output[1][i].content[k])

(***************************************************************************)
(* C1: for every thread_id and message that are non-empty once trimmed,    *)
(* and whatever the remote client does, the handler ends with a 200        *)
(* response whose text is a non-empty string.  (The claim as written asks  *)
(* only for a non-empty thread_id, which is weaker on the input side; the  *)
(* statement below already fails.)                                         *)
(***************************************************************************)
C1_AlwaysNonEmptyReply ==
    (pc = "done" /\ ~IsBlank(req_thread_id) /\ ~IsBlank(req_message))
        => (outcome = "ok" /\ Truthy(reply))

(***************************************************************************)
(* C2: when the run ended completed and the resolver returned a text, the  *)
(* handler returns exactly that text, whatever it is, and                  *)
(* responses.create is not called in the turn.                             *)
(***************************************************************************)
C2_CompletedReturnsResolverText ==
    (pc = "done" /\ RunCompleted /\ answer /= None)
        => (reply = answer /\ ~Called("complete"))

(***************************************************************************)
(* C3: for a completed run, when some message created by a                 *)
(* message_creation step is an assistant message with a non-empty text,    *)
(* the resolver returns the first non-empty text, in part order, of the    *)
(* first such message in step order; a text that does not carry the        *)
(* failure marker is also the reply of the turn.                           *)
(***************************************************************************)
C3_PrimaryExtraction ==
    (RunCompleted /\ answer /= None /\ PrimaryIdx /= {})
        => LET t == FirstTextOf(store[steps_data[MinOf(PrimaryIdx)].message_id[1]])
           IN  /\ answer = Some(t)
               /\ ~StartsWith(t, FailedMarker)
                    => (pc = "done" /\ outcome = "ok" /\ reply = Some(t))

C3_Witness ==
    /\ pc = "done"
    /\ RunCompleted
    /\ Len(created_message_ids) = 2
    /\ store[created_message_ids[1]].role = "user"
    /\ store[created_message_ids[2]] =
            [role |-> "assistant",
             content |-> Some(<<TextPart(Some("")), TextPart(Some("world"))>>)]
    /\ MinOf(PrimaryIdx) = 2
    /\ reply = Some("world")

(***************************************************************************)
(* C4: for a completed run whose steps lead to no assistant message with   *)
(* text, the resolver returns the first non-empty text of the first        *)
(* assistant message with text in the thread listing, which is scanned in  *)
(* the order received (newest first).                                      *)
(***************************************************************************)
C4_ThreadScanExtraction ==
    (RunCompleted /\ answer /= None /\ PrimaryIdx = {} /\ ThreadIdx /= {})
        => LET t == FirstTextOf(msgs_data[MinOf(ThreadIdx)])
           IN  /\ answer = Some(t)
               /\ calls[Len(calls)].op \in {"list_messages", "complete"}
               /\ \E i \in DOMAIN calls :
                    /\ calls[i].op = "list_messages"
                    /\ calls[i].opts = "order=desc,limit=25"
                    /\ Len(msgs_data) <= 25
               /\ ~StartsWith(t, FailedMarker)
                    => (pc = "done" /\ outcome = "ok" /\ reply = Some(t))

C4_Witness ==
    /\ pc = "done"
    /\ RunCompleted
    /\ steps_data /= <<>>
    /\ created_message_ids = <<>>
    /\ Len(msgs_data) = 2
    /\ ThreadIdx = {1, 2}
    /\ FirstTextOf(msgs_data[1]) = "world"
    /\ FirstTextOf(msgs_data[2]) = "hello"
    /\ reply = Some("world")

(***************************************************************************)
(* C5: for a run that ended failed, cancelled, expired or requires_action, *)
(* with or without last_error, the handler calls responses.create exactly  *)
(* once, as its last remote call and with the trimmed user message, and    *)
(* the reply is not the run's error description; a non-empty aggregated    *)
(* text of the response is the reply, and without an aggregated text the   *)
(* reply is the text of a message item or, if there is none, the fixed     *)
(* no-fallback text.                                                       *)
(***************************************************************************)
C5_NonCompletedFallsBack ==
    (pc = "done" /\ RunNotCompleted)
        => /\ Cardinality({i \in DOMAIN calls : calls[i].op = "complete"}) = 1
           /\ calls[Len(calls)].op = "complete"
           /\ IsTrimOf(calls[Len(calls)].arg, req_message)
           /\ answer /= None
           /\ StartsWith(answer[1], FailedMarker)
           /\ reply /= answer
           /\ (resp /= None /\ resp[1].has_output_text /\ Truthy(resp[1].output_text))
                => reply = resp[1].output_text
           /\ (resp /= None /\ ~resp[1].has_output_text /\ failed_op = None)
                => \/ reply = Some(NoFallbackText) /\ FallbackOffersNoText(resp[1])
                   \/ \E i \in DOMAIN resp[1].output[1] :
                      \E k \in DOMAIN resp[1].output[1][i].content :
                        /\ resp[1].output[1][i].type = "message"
                        /\ HasText(resp[1].output[1][i].content[k])
                        /\ reply = resp[1].output[1][i].content[k].text[1]

C5_Witness ==
    /\ pc = "done"
    /\ run /= None
    /\ run[1].status = Some("failed")
    /\ run[1].last_error = Some([code |-> Some("x"), message |-> Some("y")])
    /\ answer = Some("[assistant failed] code=x message=y")
    /\ resp /= None
    /\ resp[1].output_text = Some("backup-answer")
    /\ reply = Some("backup-answer")

(***************************************************************************)
(* C6: for a completed run, when no content part of any message created by *)
(* the steps or listed from the thread carries a non-empty text, the reply *)
(* is the fixed no-answer text and nothing was raised.                     *)
(***************************************************************************)
C6_NoAnswerSentinel ==
    (RunCompleted /\ answer /= None /\ NoTextAnywhere)
        => /\ pc = "done"
           /\ outcome = "ok"
           /\ failed_op = None
           /\ answer = Some(NoAnswerText)
           /\ reply = Some(NoAnswerText)

C6_Witness ==
    /\ pc = "done"
    /\ RunCompleted
    /\ NoTextAnywhere
    /\ created_message_ids /= <<>>
    /\ Len(msgs_data) = 2
    /\ msgs_data[1].content = Some(<<TextPart(Some("")), NoTextPart>>)
    /\ reply = Some(NoAnswerText)

(***************************************************************************)
(* C7 as written: for a non-empty thread_id and a message that is empty    *)
(* after trimming, the handler returns the fixed prompt and calls no       *)
(* remote operation.                                                       *)
(***************************************************************************)
C7_Original ==
    (pc = "done" /\ req_thread_id /= <<>> /\ IsBlank(req_message))
        => (outcome = "ok" /\ reply = Some(PromptText) /\ calls = <<>>)

(***************************************************************************)
(* C7 amended: for a thread_id that is non-empty after trimming and a      *)
(* message that is empty after trimming, the handler returns the fixed     *)
(* prompt and calls no remote operation.                                   *)
(***************************************************************************)
C7_EmptyMessagePrompt ==
    (pc = "done" /\ ~IsBlank(req_thread_id) /\ IsBlank(req_message))
        => (outcome = "ok" /\ reply = Some(PromptText) /\ calls = <<>>)

C7_Witness ==
    /\ pc = "done"
    /\ req_thread_id = Thd1
    /\ req_message = <<133>>
    /\ reply = Some(PromptText)
    /\ calls = <<>>

(***************************************************************************)
(* C8 as written: an empty thread_id gives HTTP 400 for every message,     *)
(* with no remote call, and the empty thread_id is the only input that     *)
(* ends in a structured failure.                                           *)
(***************************************************************************)
C8_Original ==
    pc = "done"
        => /\ req_thread_id = <<>> => (outcome = "http_400" /\ reply = None /\ calls = <<>>)
           /\ outcome /= "ok" => req_thread_id = <<>>

(***************************************************************************)
(* C8 amended: a thread_id that is empty after trimming (empty or only     *)
(* whitespace) gives HTTP 400 for every message, the empty one included,   *)
(* with no remote call, and these are the only inputs that end in a        *)
(* structured failure.                                                     *)
(***************************************************************************)
C8_BlankThreadIdRejected ==
    pc = "done"
        => /\ IsBlank(req_thread_id) => (outcome = "http_400" /\ reply = None /\ calls = <<>>)
           /\ outcome /= "ok" => IsBlank(req_thread_id)

C8_Witness ==
    /\ pc = "done"
    /\ req_thread_id = <<>>
    /\ req_message = <<>>
    /\ outcome = "http_400"
    /\ calls = <<>>

(***************************************************************************)
(* C9: when append, start_run, get_run, list_run_steps, get_message or     *)
(* list_messages raises, the turn is over with a 200 response whose text   *)
(* is the internal-error text, and the raising call is the last remote     *)
(* call of the turn.                                                       *)
(***************************************************************************)
C9_RemoteFailureContained ==
    (failed_op /= None /\ failed_op[1] \in RunOps)
        => /\ pc = "done"
           /\ outcome = "ok"
           /\ reply /= None
           /\ StartsWith(reply[1], InternalErrorPrefix)
           /\ calls[Len(calls)].op = failed_op[1]
           /\ ~Called("complete")
           /\ answer = None

C9_Witness ==
    /\ pc = "done"
    /\ failed_op = Some("get_message")
    /\ mid_idx = 2
    /\ Len(calls) = 6
    /\ reply = Some("Errore interno: Connection error.")

(***************************************************************************)
(* C10: when the fallback response offers no text (aggregated text absent, *)
(* None or empty, and no message item with a non-empty text) the reply is  *)
(* the fixed no-fallback text; a non-empty aggregated text is the reply    *)
(* whatever the output items hold.                                         *)
(***************************************************************************)
C10_FallbackSentinel ==
    (pc = "done" /\ resp /= None /\ failed_op = None)
        => /\ FallbackOffersNoText(resp[1]) => reply = Some(NoFallbackText)
           /\ (resp[1].has_output_text /\ Truthy(resp[1].output_text))
                => reply = resp[1].output_text

(***************************************************************************)
(* C11: the stateless completion is called at most once in a turn, and a   *)
(* turn whose completion call fails ends there: the exception does not     *)
(* leave the handler, the reply is the internal-error text carrying the    *)
(* exception, the failed call is the last remote call of the turn and the  *)
(* turn has started exactly one run.                                       *)
(***************************************************************************)
CountOp(op) == Cardinality({i \in DOMAIN calls : calls[i].op = op})

C11_FallbackAttemptedOnce ==
    /\ CountOp("complete") <= 1
    /\ outcome /= "http_500"
    /\ failed_op \in {Some("complete"), Some("parse_output")} =>
            /\ pc = "done"
            /\ outcome = "ok"
            /\ reply /= None
            /\ \E e \in ErrTexts \cup {NotIterableText} :
                    reply[1] = "Errore interno: " \o e
            /\ calls[Len(calls)].op = "complete"
            /\ CountOp("start_run") = 1

C11_Witness ==
    /\ pc = "done"
    /\ failed_op = Some("complete")
    /\ RunNotCompleted
    /\ reply = Some("Errore interno: Connection error.")
    /\ CountOp("complete") = 1

(***************************************************************************)
(* C12: the polling loop is left only on a status of the terminal set.     *)
(* Whatever follows the loop (a resolver call, the completion call, a      *)
(* value returned by run_assistant_and_get_reply) finds a terminal status  *)
(* in the run; and while the statuses observed so far, however many, are   *)
(* all non-terminal or missing, the turn has not returned, has not fallen  *)
(* back and has reported no error: it is sleeping or fetching again and    *)
(* its remote calls after start_run are exactly the get_run polls.         *)
(***************************************************************************)
C12_TerminalSet == {"completed", "failed", "cancelled", "expired", "requires_action"}

C12_StillPolling ==
    /\ run /= None
    /\ n_polls > 0
    /\ failed_op = None
    /\ run[1].status \notin {Some(s) : s \in C12_TerminalSet}

C12_LoopLeftOnlyOnTerminal ==
    /\ ( \/ pc \in {"list_run_steps", "get_message", "list_messages", "complete"}
         \/ answer /= None
         \/ \E op \in ResolverOps \cup {"complete"} : Called(op) )
       => /\ run /= None
          /\ run[1].status \in {Some(s) : s \in C12_TerminalSet}
    /\ C12_StillPolling =>
          /\ pc \in {"sleep", "get_run"}
          /\ outcome = "pending"
          /\ reply = None
          /\ answer = None
          /\ Len(calls) = n_polls + 2
          /\ \A i \in 3..Len(calls) : calls[i].op = "get_run"
    /\ pc = "sleep" => C12_StillPolling

C12_Witness ==
    /\ pc = "sleep"
    /\ n_polls = MaxPolls
    /\ run[1].status = None
    /\ CountOp("get_run") = MaxPolls

(***************************************************************************)
(* C13: when every remote call answers or raises and the run eventually    *)
(* reports a terminal status, a turn whose thread_id and message are not   *)
(* blank eventually returns with a 200 response.                           *)
(***************************************************************************)
C13_TurnEventuallyReturns ==
    (pc = "request" /\ ~IsBlank(req_thread_id) /\ ~IsBlank(req_message))
        ~> (pc = "done" /\ outcome = "ok")

\* a turn that went through every loop: MaxPolls sleeps, every step-created
\* message fetched, the thread listed
C13_Witness ==
    /\ pc = "done"
    /\ outcome = "ok"
    /\ n_polls = MaxPolls + 1
    /\ Len(created_message_ids) = MaxSteps
    /\ CountOp("get_message") = MaxSteps
    /\ Called("list_messages")
    /\ failed_op = None

(***************************************************************************)
(* C14: a turn starts at most one run.  start_run is called at most once,  *)
(* after it the turn holds the run it returned, and every get_run and      *)
(* list_run_steps call names that run's id, whatever the turn met (a       *)
(* non-completed status, no text found, an exception).                     *)
(***************************************************************************)
C14_OneRunPerTurn ==
    /\ CountOp("start_run") <= 1
    /\ \A i \in DOMAIN calls :
          calls[i].op \in {"get_run", "list_run_steps"} =>
              /\ i > 2
              /\ calls[2].op = "start_run"
              /\ run /= None
              /\ calls[i].arg = run[1].id
    /\ run /= None => CountOp("start_run") = 1

C14_Witness ==
    /\ pc = "done"
    /\ run /= None
    /\ run[1].id = "run_1"
    /\ RunNotCompleted
    /\ CountOp("start_run") = 1
    /\ CountOp("get_run") = MaxPolls + 1
    /\ \A i \in 3..(MaxPolls + 3) : calls[i].arg = "run_1"

(***************************************************************************)
(* C15: the remote calls of a turn come in a fixed order: append_message,  *)
(* start_run, one or more get_run, then either the resolver's reads or the *)
(* stateless completion.  start_run follows an append_message that         *)
(* returned, the resolver's reads and the completion come only after a     *)
(* get_run has shown a terminal status, and no get_run comes after them.   *)
(***************************************************************************)
C15_OrderOfCalls ==
    \A i \in DOMAIN calls :
        /\ calls[i].op = "append_message" => i = 1
        /\ calls[i].op = "start_run" => i = 2 /\ calls[1].op = "append_message"
        /\ calls[i].op = "get_run" =>
              /\ i >= 3
              /\ calls[2].op = "start_run"
              /\ \A j \in 3..i : calls[j].op = "get_run"
        /\ calls[i].op \in ResolverOps \cup {"complete"} =>
              /\ i >= 4
              /\ calls[3].op = "get_run"
              /\ run /= None
              /\ run[1].status \in {Some(s) : s \in C12_TerminalSet}
              /\ \A j \in i..Len(calls) : calls[j].op /= "get_run"

C15_FixedOrder ==
    /\ C15_OrderOfCalls
    /\ ~(Called("complete") /\ \E op \in ResolverOps : Called(op))

(***************************************************************************)
(* C16: the resolver runs only for a completed run.  When the terminal     *)
(* status is failed, cancelled, expired or requires_action, none of        *)
(* list_run_steps, get_message, list_messages is called in the turn; a     *)
(* turn that called one of them has a completed run.                       *)
(***************************************************************************)
C16_ResolverOnlyWhenCompleted ==
    /\ \A st \in {"failed", "cancelled", "expired", "requires_action"} :
          (run /= None /\ run[1].status = Some(st)) =>
              \A i \in DOMAIN calls : calls[i].op \notin ResolverOps
    /\ (\/ \E op \in ResolverOps : Called(op)
        \/ pc \in {"list_run_steps", "get_message", "list_messages"})
          => run /= None /\ run[1].status = Some("completed")

C16_Witness ==
    /\ pc = "done"
    /\ run /= None
    /\ run[1].status = Some("requires_action")
    /\ answer /= None
    /\ Called("complete")
    /\ \A op \in ResolverOps : ~Called(op)

(***************************************************************************)
(* C19: when a message created by a step of the run has text, the value    *)
(* returned is the text of a message that a message_creation step of the   *)
(* turn's own run created, that message is the last one fetched (every     *)
(* message fetched before it had no text, no later one is fetched) and     *)
(* list_messages is not called.  The thread is listed only after every     *)
(* step-created message has been fetched and none had text.                *)
(***************************************************************************)
C19_IsGetMessage(c) == c.op = "get_message"

\* the ids of the messages retrieved, in the order of the calls
C19_Fetched ==
    LET sel == SelectSeq(calls, C19_IsGetMessage)
    IN  [k \in DOMAIN sel |-> sel[k].arg]

C19_PrimaryPathIsFinal ==
    /\ (RunCompleted /\ answer /= None /\ PrimaryIdx /= {}) =>
          LET st == steps_data[MinOf(PrimaryIdx)]
              mid == st.message_id[1]
              n == Len(C19_Fetched)
          IN  /\ st.type = "message_creation"
              /\ \E i \in DOMAIN calls :
                    /\ calls[i].op = "list_run_steps"
                    /\ calls[i].arg = run[1].id
                    /\ calls[i].thread_id = thread_id
              /\ answer = Some(FirstTextOf(store[mid]))
              /\ n >= 1
              /\ C19_Fetched[n] = mid
              /\ \A k \in 1..(n - 1) : ~Qualifies(store[C19_Fetched[k]])
              /\ ~Called("list_messages")
              /\ ~StartsWith(answer[1], FailedMarker) => reply = answer
    /\ Called("list_messages") =>
          /\ PrimaryIdx = {}
          /\ C19_Fetched = created_message_ids
          /\ \A k \in DOMAIN created_message_ids :
                ~Qualifies(store[created_message_ids[k]])

\* two step-created messages with text: the first is returned, the second is
\* never fetched
C19_Witness ==
    /\ pc = "done"
    /\ RunCompleted
    /\ created_message_ids = <<"msg_2", "msg_1">>
    /\ Qualifies(store["msg_1"])
    /\ Qualifies(store["msg_2"])
    /\ FirstTextOf(store["msg_1"]) /= FirstTextOf(store["msg_2"])
    /\ C19_Fetched = <<"msg_2">>
    /\ reply = Some(FirstTextOf(store["msg_2"]))
    /\ ~Called("list_messages")

(***************************************************************************)
(* C17: reply extraction is read-only and idempotent.  Every step of the   *)
(* resolver makes one remote call, a list or a fetch (list_run_steps,      *)
(* get_message, list_messages), that leaves the remote data of the thread  *)
(* and the run as they were; and the resolver called a second time on the  *)
(* same run, with the same step and message data, returns the text it      *)
(* returned the first time.                                                *)
(***************************************************************************)
C17_ReadOnlyIdempotent ==
    [][ /\ pc \in {"list_run_steps", "get_message", "list_messages"} =>
              /\ remote' = remote
              /\ run' = run
              /\ Len(calls') = Len(calls) + 1
              /\ SubSeq(calls', 1, Len(calls)) = calls
              /\ calls'[Len(calls')].op \in ResolverOps
        /\ (first_answer' /= None /\ answer' /= None) => answer' = first_answer'
      ]_vars

\* both passes fetched a step-created message without text and then found
\* the text in the thread listing
C17_Witness ==
    /\ pc = "done"
    /\ first_answer = Some("world")
    /\ answer = Some("world")
    /\ CountOp("list_run_steps") = 2
    /\ CountOp("get_message") = 2
    /\ CountOp("list_messages") = 2

(***************************************************************************)
(* C18: two turns on different threads are independent, wherever the event *)
(* loop changes turn.  Every remote call of a turn names the turn's own    *)
(* thread, its get_run and list_run_steps calls name the run started on    *)
(* that thread, its append_message and complete calls carry its own        *)
(* message; and the reply of a turn that has returned is the reply the     *)
(* turn gives when it runs alone against the remote data of its thread.    *)
(***************************************************************************)
C18_Frames == {Locals} \cup (IF other = None THEN {} ELSE {other[1]})

C18_OwnCalls(f) ==
    \A i \in DOMAIN f.calls :
        LET c == f.calls[i]
        IN  /\ IsTrimOf(c.thread_id, f.req_thread_id)
            /\ c.op \in {"get_run", "list_run_steps"} =>
                  c.arg = remote[1][c.thread_id].run_id
            /\ c.op \in {"append_message", "complete"} =>
                  IsTrimOf(c.arg, f.req_message)
            /\ c.op = "get_message" =>
                  \E k \in DOMAIN remote[1][c.thread_id].steps :
                      remote[1][c.thread_id].steps[k].message_id = Some(c.arg)

C18_TurnsIndependent ==
    \A f \in C18_Frames :
        /\ C18_OwnCalls(f)
        /\ (f.pc = "done" /\ ~IsBlank(f.req_message)) =>
              /\ f.outcome = "ok"
              /\ f.reply = SoloReply(remote[1][f.thread_id])

\* both turns polled MaxPolls + 1 times and returned, one with the text of a
\* step-created message of its thread, the other with the text found in the
\* listing of its own
C18_Witness ==
    /\ pc = "done"
    /\ other /= None
    /\ other[1].pc = "done"
    /\ n_polls = MaxPolls + 1
    /\ other[1].n_polls = MaxPolls + 1
    /\ {reply, other[1].reply} = {Some("hello"), Some("world")}

====
